---- MODULE Spec2Model ----
(***************************************************************************)
(* Campaign controller and log recorder of the App component               *)
(* (src/types.ts).  React state (config, appState, campaignStatus, log,    *)
(* currentNumberIndex), the two timer refs and the browser's set of        *)
(* pending setTimeout callbacks are the state.  Every                      *)
(* handler runs to completion on the single event-loop thread, so each     *)
(* handler and each timer callback is one atomic action.  A callback       *)
(* closes over the `config` of the render that armed it, so every pending  *)
(* timer carries the config it captured.  Delay durations are abstracted:  *)
(* a pending timer fires at some later instant.                            *)
(***************************************************************************)
EXTENDS Integers, Sequences, FiniteSets, TLC

VARIABLES config, appState, campaignStatus, log, currentNumberIndex,
          timerRef, actionTimerRef, timers, clock, nOps

vars == <<config, appState, campaignStatus, log, currentNumberIndex,
          timerRef, actionTimerRef, timers, clock, nOps>>

(* ------------------------------ bounds -------------------------------- *)
\* operator interventions explored: confirmed starts, stop, pause, resume,
\* skip, edits of the form and delivery-status updates
MaxOps == 3
\* setTimeout callbacks pending at the same time
MaxTimers == 2
\* the wall clock's reading wraps around, as a time of day does
ClockMod == 2

(* ------------------------------ values -------------------------------- *)
\* JavaScript's undefined, for a field that is absent from an object
Undef == "undefined"
\* a null File reference
NullFile == "null"
\* a ref whose current is null (setTimeout ids are positive)
NullTimer == 0

\* The characters of the strings used as phone numbers.
Chars(s) ==
    CASE s = ""      -> <<>>
      [] s = "+100"  -> <<"+", "1", "0", "0">>
      [] s = "101"   -> <<"1", "0", "1">>
      [] s = "102"   -> <<"1", "0", "2">>
      [] s = "+999"  -> <<"+", "9", "9", "9">>
      [] OTHER       -> <<"?">>

Digit == {"0", "1", "2", "3", "4", "5", "6", "7", "8", "9"}

\* /^\+?\d+$/.test(s)
IsPhoneNumber(s) ==
    LET cs   == Chars(s)
        rest == IF Len(cs) > 0 /\ cs[1] = "+" THEN Tail(cs) ELSE cs
    IN  /\ Len(rest) >= 1
        /\ \A i \in 1..Len(rest) : rest[i] \in Digit

\* s.trim(): the strings used as templates have no surrounding white space
\* except the all-blank ones
Trim(s) == IF s \in {"", " "} THEN "" ELSE s

\* seq[i] with JavaScript's zero-based index: undefined out of range
At(seq, i) == IF i + 1 \in DOMAIN seq THEN seq[i + 1] ELSE Undef

AppStates == {"Idle", "WaitingForNext", "WaitingForSend", "Finished"}
CampaignStatuses == {"stopped", "running", "paused", "finished"}
DeliveryStatuses == {"Pending", "Delivered", "Read"}

(* ------------------------------ configs ------------------------------- *)
\* the recipients the form's list is filled with, in order: every list
\* explored is a prefix, so a number names its recipient index
Recipients == <<"+100", "101", "102">>

\* the form's initial contents
DefaultConfig ==
    [ message1        |-> "Hello! This is message template 1.",
      file1           |-> NullFile,
      message2        |-> "Hi there, this is the second message template.",
      file2           |-> NullFile,
      numbers         |-> <<>>,
      delayBetween    |-> 15,
      sendActionDelay |-> 5,
      monitorNumber   |-> "",
      monitorMessages |-> << "New message sent", "Message dispatched successfully",
                             "Monitoring is active", "Processing next number" >> ]

\* two recipients, monitor disabled
TwoConfig == [DefaultConfig EXCEPT !.numbers = SubSeq(Recipients, 1, 2)]

\* three recipients, both delays 0, monitor disabled
ZeroDelayConfig ==
    [DefaultConfig EXCEPT !.numbers = Recipients,
                          !.delayBetween = 0, !.sendActionDelay = 0]

\* one recipient, other templates with attachments, monitor enabled
MonitorConfig ==
    [DefaultConfig EXCEPT !.numbers = SubSeq(Recipients, 1, 1),
                          !.message1 = "Offer A", !.file1 = "a.png",
                          !.message2 = "Offer B", !.file2 = "b.png",
                          !.delayBetween = 1, !.sendActionDelay = 1,
                          !.monitorNumber = "+999"]

\* the contents the form is edited to
Configs == {DefaultConfig, TwoConfig, MonitorConfig}


(* --------------------------- log recorder ----------------------------- *)
\* file?.name
FileName(file) == IF file = NullFile THEN Undef ELSE file

\* The controller's mutable state as one record, so that the helper
\* functions of the component can be composed as they call each other.
Cur ==
    [ appState           |-> appState,
      campaignStatus     |-> campaignStatus,
      log                |-> log,
      currentNumberIndex |-> currentNumberIndex,
      timerRef           |-> timerRef,
      actionTimerRef     |-> actionTimerRef,
      timers             |-> timers ]

\* an append at the tail of the log
addLogAtEnd(s, now, message, status, data) ==
    [s EXCEPT !.log = @ \o << [ timestamp |-> now, message |-> message,
                                status |-> status, data |-> data ] >>]

\* setLog(prevLog => [{timestamp, message, status, data}, ...prevLog]);
\* data is <<>> when the argument is omitted, <<d>> otherwise
addLog(s, now, message, status, data) ==
    [s EXCEPT !.log = << [ timestamp |-> now, message |-> message,
                           status |-> status, data |-> data ] >> \o @]

\* clearTimeout on both refs, then both refs null
clearTimers(s) ==
    [s EXCEPT !.timers = {t \in @ : t.id \notin {s.timerRef, s.actionTimerRef}},
              !.timerRef = NullTimer,
              !.actionTimerRef = NullTimer]

\* setTimeout returns an id no pending timer and no ref holds
FreshTimerId(s) ==
    LET used == {t.id : t \in s.timers} \cup {s.timerRef, s.actionTimerRef}
    IN  CHOOSE n \in 1..(Cardinality(used) + 1) :
            /\ n \notin used
            /\ \A m \in 1..(n - 1) : m \in used

\* setTimeout(callback, delay): the callback closes over cfg and index
Armed(id, slot, cfg, index, delay) ==
    [id |-> id, slot |-> slot, cfg |-> cfg, index |-> index, delay |-> delay]

(* --------------------------- controller ------------------------------- *)
\* an advance whose end test is off by one
processNextNumberLate(s, now, cfg, index) ==
    IF index > Len(cfg.numbers)
    THEN clearTimers(addLog([s EXCEPT !.appState = "Finished",
                                      !.campaignStatus = "finished"],
                            now, <<"Campaign finished.">>, "INFO", <<>>))
    ELSE LET delay == IF index = 0 THEN 0 ELSE cfg.delayBetween * 1000
             id    == FreshTimerId(s)
         IN  [s EXCEPT !.appState = "WaitingForNext",
                       !.timerRef = id,
                       !.timers   = @ \cup {Armed(id, "next", cfg, index, delay)}]

processNextNumber(s, now, cfg, index) ==
    IF index >= Len(cfg.numbers)
    THEN clearTimers(addLog([s EXCEPT !.appState = "Finished",
                                      !.campaignStatus = "finished"],
                            now, <<"Campaign finished.">>, "INFO", <<>>))
    ELSE LET delay == IF index = 0 THEN 0 ELSE cfg.delayBetween * 1000
             id    == FreshTimerId(s)
         IN  [s EXCEPT !.appState = "WaitingForNext",
                       !.timerRef = id,
                       !.timers   = @ \cup {Armed(id, "next", cfg, index, delay)}]

\* the synchronous part of startSendAction: phase and the armed send timer
startSendAction(s, cfg, index) ==
    LET id == FreshTimerId(s)
    IN  [s EXCEPT !.appState = "WaitingForSend",
                  !.actionTimerRef = id,
                  !.timers = @ \cup {Armed(id, "send", cfg, index,
                                           cfg.sendActionDelay * 1000)}]

\* a send that always uses the first template
sendCallbackFirstTemplate(s, now, cfg, index) ==
    LET sentNumber == At(cfg.numbers, index)
        s1 == addLog(s, now, <<"Message presumed SENT to ", sentNumber, ".">>,
                     "SUCCESS",
                     << [ number |-> sentNumber, status |-> "SENT",
                          message |-> cfg.message1, file |-> FileName(cfg.file1),
                          deliveryStatus |-> "Pending" ] >>)
        s2 == IF cfg.monitorNumber # "" /\ Len(cfg.monitorMessages) > 0
              THEN addLog(s1, now, <<"Sending monitor message to ",
                                     cfg.monitorNumber>>, "INFO", <<>>)
              ELSE s1
    IN  processNextNumber([s2 EXCEPT !.currentNumberIndex = index + 1],
                          now, cfg, index + 1)

\* a send that reports to the monitor whether or not one is configured
sendCallbackMonitorAlways(s, now, cfg, index) ==
    LET sentNumber == At(cfg.numbers, index)
        msgIndex   == index % 2
        msg        == IF msgIndex = 0 THEN cfg.message1 ELSE cfg.message2
        file       == IF msgIndex = 0 THEN cfg.file1 ELSE cfg.file2
        s1 == addLog(s, now, <<"Message presumed SENT to ", sentNumber, ".">>,
                     "SUCCESS",
                     << [ number |-> sentNumber, status |-> "SENT",
                          message |-> msg, file |-> FileName(file),
                          deliveryStatus |-> "Pending" ] >>)
        s2 == addLog(s1, now, <<"Sending monitor message to ",
                                cfg.monitorNumber>>, "INFO", <<>>)
        nextIndex == index + 1
    IN  processNextNumber([s2 EXCEPT !.currentNumberIndex = nextIndex],
                          now, cfg, nextIndex)

\* the callback startSendAction arms.  The monitor message picked with
\* Math.random is not used by the entry that is logged.
sendCallback(s, now, cfg, index) ==
    LET sentNumber == At(cfg.numbers, index)
        msgIndex   == index % 2
        msg        == IF msgIndex = 0 THEN cfg.message1 ELSE cfg.message2
        file       == IF msgIndex = 0 THEN cfg.file1 ELSE cfg.file2
        s1 == addLog(s, now, <<"Message presumed SENT to ", sentNumber, ".">>,
                     "SUCCESS",
                     << [ number |-> sentNumber, status |-> "SENT",
                          message |-> msg, file |-> FileName(file),
                          deliveryStatus |-> "Pending" ] >>)
        s2 == IF cfg.monitorNumber # "" /\ Len(cfg.monitorMessages) > 0
              THEN addLog(s1, now, <<"Sending monitor message to ",
                                     cfg.monitorNumber>>, "INFO", <<>>)
              ELSE s1
        nextIndex == index + 1
    IN  processNextNumber([s2 EXCEPT !.currentNumberIndex = nextIndex],
                          now, cfg, nextIndex)

validationErrors(cfg) ==
    (IF Trim(cfg.message1) = "" /\ Trim(cfg.message2) = ""
       THEN {"messages"} ELSE {})
    \cup (IF Len(cfg.numbers) = 0
            \/ \E i \in 1..Len(cfg.numbers) : ~IsPhoneNumber(cfg.numbers[i])
          THEN {"numbers"} ELSE {})
    \cup (IF cfg.delayBetween <= 0 THEN {"delayBetween"} ELSE {})
    \cup (IF cfg.sendActionDelay <= 0 THEN {"sendActionDelay"} ELSE {})
    \cup (IF cfg.monitorNumber # "" /\ ~IsPhoneNumber(cfg.monitorNumber)
          THEN {"monitorNumber"} ELSE {})

validateConfig(cfg) == validationErrors(cfg) = {}

\* the state the handlers leave, as functions of the state they run in
startResult(s, now, cfg) ==
    processNextNumber(
        addLog([s EXCEPT !.log = <<>>, !.currentNumberIndex = 0,
                         !.campaignStatus = "running"],
               now, <<"Campaign started.">>, "INFO", <<>>),
        now, cfg, 0)

stopResult(s, now) ==
    addLog([clearTimers(s) EXCEPT !.appState = "Idle",
                                  !.campaignStatus = "stopped"],
           now, <<"Campaign stopped by user.">>, "INFO", <<>>)

\* pause that leaves the pending timer running
pauseResultNoClear(s, now) ==
    addLog([s EXCEPT !.campaignStatus = "paused"],
           now, <<"Campaign paused.">>, "INFO", <<>>)

pauseResult(s, now) ==
    addLog([clearTimers(s) EXCEPT !.campaignStatus = "paused"],
           now, <<"Campaign paused.">>, "INFO", <<>>)

\* resume that forgets to re-arm the delay the pause cancelled
resumeResultNoRearm(s, now, cfg) ==
    addLog([s EXCEPT !.campaignStatus = "running"],
           now, <<"Campaign resumed.">>, "INFO", <<>>)

resumeResult(s, now, cfg) ==
    LET s1 == addLog([s EXCEPT !.campaignStatus = "running"],
                     now, <<"Campaign resumed.">>, "INFO", <<>>)
    IN  IF s.appState = "WaitingForNext"
          THEN processNextNumber(s1, now, cfg, s.currentNumberIndex)
        ELSE IF s.appState = "WaitingForSend"
          THEN startSendAction(s1, cfg, s.currentNumberIndex)
        ELSE s1

skipResult(s, now, cfg) ==
    LET s0 == IF s.actionTimerRef # NullTimer
              THEN [s EXCEPT !.timers = {t \in @ : t.id # s.actionTimerRef},
                             !.actionTimerRef = NullTimer]
              ELSE s
        skippedNumber == At(cfg.numbers, s.currentNumberIndex)
        s1 == addLog(s0, now, <<"Skipped number: ", skippedNumber>>, "SKIPPED",
                     << [number |-> skippedNumber, status |-> "SKIPPED"] >>)
        nextIndex == s.currentNumberIndex + 1
    IN  processNextNumber([s1 EXCEPT !.currentNumberIndex = nextIndex],
                          now, cfg, nextIndex)

\* an update that also rewrites the entry's status tag
updateResultTag(lg, logIndex, newStatus) ==
    IF logIndex + 1 \in DOMAIN lg /\ Len(lg[logIndex + 1].data) = 1
    THEN LET d == lg[logIndex + 1].data[1]
         IN  [lg EXCEPT ![logIndex + 1].status = newStatus,
                        ![logIndex + 1].data =
                 << [f \in DOMAIN d \cup {"deliveryStatus"} |->
                        IF f = "deliveryStatus" THEN newStatus ELSE d[f]] >>]
    ELSE lg

\* entry.data.deliveryStatus = newStatus, on a copy of the array
updateResult(lg, logIndex, newStatus) ==
    IF logIndex + 1 \in DOMAIN lg /\ Len(lg[logIndex + 1].data) = 1
    THEN LET d == lg[logIndex + 1].data[1]
         IN  [lg EXCEPT ![logIndex + 1].data =
                 << [f \in DOMAIN d \cup {"deliveryStatus"} |->
                        IF f = "deliveryStatus" THEN newStatus ELSE d[f]] >>]
    ELSE lg

(* ------------------------------ actions ------------------------------- *)
\* the controller's fields take the values of record s
Becomes(s) ==
    /\ Cardinality(s.timers) <= MaxTimers
    /\ appState' = s.appState
    /\ campaignStatus' = s.campaignStatus
    /\ log' = s.log
    /\ currentNumberIndex' = s.currentNumberIndex
    /\ timerRef' = s.timerRef
    /\ actionTimerRef' = s.actionTimerRef
    /\ timers' = s.timers

\* the state after construction, the form holding one of cfgs
InitIn(cfgs) ==
    /\ config \in cfgs
    /\ appState = "Idle"
    /\ campaignStatus = "stopped"
    /\ log = <<>>
    /\ currentNumberIndex = 0
    /\ timerRef = NullTimer
    /\ actionTimerRef = NullTimer
    /\ timers = {}
    /\ clock = 0
    /\ nOps = 0

Init == InitIn(Configs)

\* one more operator intervention, within the explored budget
Intervene ==
    /\ nOps < MaxOps
    /\ nOps' = nOps + 1

\* the form calls setConfig
SetConfig(cfg) ==
    /\ Intervene
    /\ cfg # config
    /\ config' = cfg
    /\ UNCHANGED <<appState, campaignStatus, log, currentNumberIndex,
                   timerRef, actionTimerRef, timers, clock>>

\* the confirmation dialog's onConfirm.  handleStartCampaign validates the
\* form before it opens the dialog, but the form stays on the page while the
\* dialog is open, so the handler runs with whatever the form holds when
\* the operator confirms; validateConfig is the precondition of the
\* properties that assume a valid configuration.
executeStartCampaign ==
    /\ Intervene
    /\ Becomes(startResult(Cur, clock, config))
    /\ UNCHANGED <<config, clock>>

handleStopCampaign ==
    /\ Intervene
    /\ Becomes(stopResult(Cur, clock))
    /\ UNCHANGED <<config, clock>>

handlePauseCampaign ==
    /\ Intervene
    /\ Becomes(pauseResult(Cur, clock))
    /\ UNCHANGED <<config, clock>>

handleResumeCampaign ==
    /\ Intervene
    /\ Becomes(resumeResult(Cur, clock, config))
    /\ UNCHANGED <<config, clock>>

handleSkipNumber ==
    /\ Intervene
    /\ Becomes(skipResult(Cur, clock, config))
    /\ UNCHANGED <<config, clock>>

handleUpdateDeliveryStatus(logIndex, newStatus) ==
    /\ Intervene
    /\ UNCHANGED <<config, appState, campaignStatus, currentNumberIndex,
                   timerRef, actionTimerRef, timers, clock>>
    /\ log' = updateResult(log, logIndex, newStatus)

\* the next-delay timer t fires: startSendAction(index)
NextDelayFires(t) ==
    /\ t \in timers
    /\ t.slot = "next"
    /\ clock' = (clock + 1) % ClockMod
    /\ Becomes(startSendAction([Cur EXCEPT !.timers = @ \ {t}], t.cfg, t.index))
    /\ UNCHANGED <<config, nOps>>

\* the send-delay timer t fires
SendDelayFires(t) ==
    /\ t \in timers
    /\ t.slot = "send"
    /\ clock' = (clock + 1) % ClockMod
    /\ Becomes(sendCallback([Cur EXCEPT !.timers = @ \ {t}], clock', t.cfg,
                            t.index))
    /\ UNCHANGED <<config, nOps>>

Next ==
    \/ \E cfg \in Configs : SetConfig(cfg)
    \/ executeStartCampaign
    \/ handleStopCampaign
    \/ handlePauseCampaign
    \/ handleResumeCampaign
    \/ handleSkipNumber
    \/ \E k \in 0..Len(log), d \in DeliveryStatuses :
          handleUpdateDeliveryStatus(k, d)
    \/ \E t \in timers : NextDelayFires(t)
    \/ \E t \in timers : SendDelayFires(t)

Spec == Init /\ [][Next]_vars

(* ------------------- one run, paused and resumed ---------------------- *)
\* One campaign run that the operator only pauses and resumes: the run is
\* started once, paused only while it runs and resumed only while it is
\* paused.  A resume is not counted, so that every pause can be followed
\* by its resume.
RunConfigs == Configs \cup {ZeroDelayConfig}

RunInit == InitIn(RunConfigs)

RunStart ==
    /\ nOps = 0
    /\ executeStartCampaign

RunPause ==
    /\ campaignStatus = "running"
    /\ handlePauseCampaign

RunResume ==
    /\ campaignStatus = "paused"
    /\ Becomes(resumeResult(Cur, clock, config))
    /\ UNCHANGED <<config, clock, nOps>>

RunNext ==
    \/ RunStart
    \/ RunPause
    \/ RunResume
    \/ \E t \in timers : NextDelayFires(t)
    \/ \E t \in timers : SendDelayFires(t)

RunSpec == RunInit /\ [][RunNext]_vars

\* a pending timer fires once its delay has passed, and a paused run is
\* resumed
LiveSpec ==
    /\ RunSpec
    /\ WF_vars(RunResume)
    /\ WF_vars(\E t \in timers : NextDelayFires(t))
    /\ WF_vars(\E t \in timers : SendDelayFires(t))


(* ------------------- the operator and the timers ---------------------- *)
\* The controller driven by its operations and its timers only: the form
\* keeps the contents it was constructed with.
OpsNext ==
    \/ executeStartCampaign
    \/ handleStopCampaign
    \/ handlePauseCampaign
    \/ handleResumeCampaign
    \/ handleSkipNumber
    \/ \E t \in timers : NextDelayFires(t)
    \/ \E t \in timers : SendDelayFires(t)

OpsSpec == Init /\ [][OpsNext]_vars


(* --------------------- one run, the form edited ----------------------- *)
\* One campaign run started from the form holding TwoConfig and used the
\* way the panels offer it: the form is edited while the run is running or
\* paused, the run is paused only while it runs, resumed only while it is
\* paused, and a recipient is skipped only while its send-delay is pending.
EditInit == InitIn({TwoConfig})

EditConfig(cfg) ==
    /\ campaignStatus \in {"running", "paused"}
    /\ SetConfig(cfg)

EditSkip ==
    /\ campaignStatus = "running"
    /\ appState = "WaitingForSend"
    /\ handleSkipNumber

EditNext ==
    \/ RunStart
    \/ \E cfg \in Configs : EditConfig(cfg)
    \/ RunPause
    \/ RunResume
    \/ EditSkip
    \/ \E t \in timers : NextDelayFires(t)
    \/ \E t \in timers : SendDelayFires(t)

EditSpec == EditInit /\ [][EditNext]_vars


(* ------------------ one run, any operator sequence -------------------- *)
\* One campaign run: the run is started once, then paused, resumed and
\* skipped in any order and in any status or phase; it is never stopped
\* and the form is not edited.
Started == nOps > 0

OneRunNext ==
    \/ RunStart
    \/ Started /\ handlePauseCampaign
    \/ Started /\ handleResumeCampaign
    \/ Started /\ handleSkipNumber
    \/ \E t \in timers : NextDelayFires(t)
    \/ \E t \in timers : SendDelayFires(t)

OneRunSpec == Init /\ [][OneRunNext]_vars


(* ------------------------ reading the log ----------------------------- *)
StartedMsg  == <<"Campaign started.">>
StoppedMsg  == <<"Campaign stopped by user.">>
PausedMsg   == <<"Campaign paused.">>
ResumedMsg  == <<"Campaign resumed.">>
FinishedMsg == <<"Campaign finished.">>

\* the positions of the log whose entry carries tag
Tagged(lg, tag) == {i \in DOMAIN lg : lg[i].status = tag}

\* the recipient of an entry with a payload
NumberOf(e) == e.data[1].number

\* the zero-based index of a recipient
IndexOf(number) == CHOOSE i \in 0..(Len(Recipients) - 1) : Recipients[i + 1] = number

\* an entry without its timestamp
Untimed(e) == [message |-> e.message, status |-> e.status, data |-> e.data]

Finished ==
    /\ campaignStatus = "finished"
    /\ appState = "Finished"
    /\ currentNumberIndex = Len(config.numbers)

(* ------------------------------ claims -------------------------------- *)
\* C1: with a valid configuration of N >= 1 recipients, start() sets
\* position 0 and status running, and a run that is never stopped or
\* skipped, whose pauses are resumed and whose timers fire, eventually is
\* finished: status finished, phase Finished, position N.
C1_StartRunsToFinish ==
    /\ [][(executeStartCampaign /\ validateConfig(config))
            => (currentNumberIndex' = 0 /\ campaignStatus' = "running")]_vars
    /\ ((validateConfig(config) /\ campaignStatus = "running") ~> Finished)

\* a valid two-recipient run that was paused and resumed has finished
C1_Witness ==
    /\ validateConfig(config)
    /\ Len(config.numbers) >= 2
    /\ Finished
    /\ \E i \in DOMAIN log : log[i].message = ResumedMsg

\* C2: once stop() has been called, and until start() is called again, no
\* timer is armed and the 'Campaign stopped by user' entry stays the newest
\* entry of the log.  (start() empties the log, so a log that holds the
\* entry belongs to a run that was stopped and not restarted.)
C2_StopSilences ==
    (\E i \in DOMAIN log : log[i].message = StoppedMsg)
        => (timers = {} /\ log[1].message = StoppedMsg)

\* C3: each skip() appends exactly one entry tagged SKIPPED (and no SUCCESS
\* entry), and the log never holds a SUCCESS entry of a recipient above
\* (newer than) a SKIPPED entry of the same recipient.
NoSuccessAfterSkipped(lg) ==
    \A i \in Tagged(lg, "SUCCESS"), j \in Tagged(lg, "SKIPPED") :
        i < j => NumberOf(lg[i]) # NumberOf(lg[j])

C3_SkipIsFinal ==
    [][/\ handleSkipNumber =>
            /\ Cardinality(Tagged(log', "SKIPPED"))
                 = Cardinality(Tagged(log, "SKIPPED")) + 1
            /\ Cardinality(Tagged(log', "SUCCESS"))
                 = Cardinality(Tagged(log, "SUCCESS"))
       /\ NoSuccessAfterSkipped(log) => NoSuccessAfterSkipped(log')]_vars

\* C4: skip() called in a phase other than WaitingForSend appends nothing,
\* leaves the position alone and arms or cancels no timer.
C4_SkipOnlyWhileSending ==
    [][(handleSkipNumber /\ appState # "WaitingForSend")
         => UNCHANGED <<log, currentNumberIndex, timers, timerRef,
                        actionTimerRef, appState, campaignStatus>>]_vars

\* the run of cfg that nobody interrupts: start, then every timer fires
RECURSIVE RunToEnd(_)
RunToEnd(s) ==
    IF s.timers = {} THEN s
    ELSE LET t  == CHOOSE x \in s.timers : TRUE
             s0 == [s EXCEPT !.timers = @ \ {t}]
         IN  RunToEnd(IF t.slot = "next"
                        THEN startSendAction(s0, t.cfg, t.index)
                        ELSE sendCallback(s0, 0, t.cfg, t.index))

UninterruptedLog(cfg) ==
    RunToEnd(startResult([ appState |-> "Idle", campaignStatus |-> "stopped",
                           log |-> <<>>, currentNumberIndex |-> 0,
                           timerRef |-> NullTimer, actionTimerRef |-> NullTimer,
                           timers |-> {} ], 0, cfg)).log

IsPauseOrResume(e) == e.message \in {PausedMsg, ResumedMsg}
NotPauseOrResume(e) == ~IsPauseOrResume(e)

\* the entries of lg, timestamps aside
UntimedLog(lg) == [i \in DOMAIN lg |-> Untimed(lg[i])]

\* C5: a run that is paused and at once resumed, in either waiting phase,
\* logs up to its completion the entries of the uninterrupted run of the
\* same configuration, in the same order; only the paused and resumed INFO
\* entries are added.
C5_PauseResumeIsTransparent ==
    campaignStatus = "finished"
        => UntimedLog(SelectSeq(log, NotPauseOrResume))
             = UntimedLog(UninterruptedLog(config))

\* a finished run of two or more recipients that was paused and resumed
\* twice
C5_Witness ==
    /\ campaignStatus = "finished"
    /\ Len(config.numbers) >= 2
    /\ Cardinality({i \in DOMAIN log : log[i].message = ResumedMsg}) >= 2
    /\ Tagged(log, "SUCCESS") # {}

\* C6: a SUCCESS entry of recipient index i carries template 1 (message1
\* with file1) when i is even and template 2 (message2 with file2) when i
\* is odd, whatever was skipped, paused or resumed before.  (An entry
\* whose number is undefined names no recipient.)
Template1 == {<<c.message1, FileName(c.file1)>> : c \in RunConfigs}
Template2 == {<<c.message2, FileName(c.file2)>> : c \in RunConfigs}

C6_TemplateByParity ==
    \A i \in Tagged(log, "SUCCESS") :
        LET d == log[i].data[1]
        IN  d.number # Undef =>
              <<d.message, d.file>> \in (IF IndexOf(d.number) % 2 = 0
                                           THEN Template1 \ Template2
                                           ELSE Template2 \ Template1)

\* recipient 1 was sent to after recipient 0 was skipped and the run was
\* paused and resumed
C6_Witness ==
    /\ \E i \in Tagged(log, "SUCCESS") : NumberOf(log[i]) = Recipients[2]
    /\ \E j \in Tagged(log, "SKIPPED") : NumberOf(log[j]) = Recipients[1]
    /\ \E k \in DOMAIN log : log[k].message = ResumedMsg

\* C7: outside start(), which empties the log, a step that adds entries
\* puts them in front: the log it found is the tail of the log it leaves,
\* entry for entry, so the log is newest-first and the earlier entries keep
\* their order.  (Only a delivery-status update rewrites an entry.)
IsUpdateStep ==
    \E k \in 0..Len(log), d \in DeliveryStatuses :
        handleUpdateDeliveryStatus(k, d)

C7_AppendAtFront ==
    [][\/ /\ Len(log') >= Len(log)
          /\ SubSeq(log', Len(log') - Len(log) + 1, Len(log')) = log
       \/ executeStartCampaign
       \/ IsUpdateStep]_vars

\* a log whose oldest entry is the start and that holds a send above it
C7_Witness ==
    /\ Len(log) >= 3
    /\ log[Len(log)].message = StartedMsg
    /\ log[1].status = "SUCCESS"

\* C8: updateDeliveryStatus(k, s) leaves the controller's status, phase,
\* position, refs and timers and the log's length alone; every entry but
\* the one at index k is unchanged; the entry at index k keeps timestamp,
\* message and status tag, and its payload, if it has one, changes in the
\* delivery-status field only, which becomes s; with k out of range or no
\* payload the log is unchanged.
UpdateFrame(k, d) ==
    /\ UNCHANGED <<config, appState, campaignStatus, currentNumberIndex,
                   timerRef, actionTimerRef, timers>>
    /\ Len(log') = Len(log)
    /\ \A i \in DOMAIN log : i # k + 1 => log'[i] = log[i]
    /\ (k + 1 \notin DOMAIN log) => log' = log
    /\ (k + 1 \in DOMAIN log) =>
          LET old == log[k + 1]
              new == log'[k + 1]
          IN  /\ new.timestamp = old.timestamp
              /\ new.message = old.message
              /\ new.status = old.status
              /\ Len(new.data) = Len(old.data)
              /\ Len(old.data) = 1 =>
                    /\ new.data[1].deliveryStatus = d
                    /\ DOMAIN new.data[1]
                         = DOMAIN old.data[1] \cup {"deliveryStatus"}
                    /\ \A f \in DOMAIN old.data[1] \ {"deliveryStatus"} :
                          new.data[1][f] = old.data[1][f]

C8_UpdateTouchesOneField ==
    [][\A k \in 0..Len(log), d \in DeliveryStatuses :
          handleUpdateDeliveryStatus(k, d) => UpdateFrame(k, d)]_vars

\* a send's entry was marked Read below a newer entry
C8_Witness ==
    \E i \in Tagged(log, "SUCCESS") :
        /\ i > 1
        /\ log[i].data[1].deliveryStatus = "Read"

\* the templates of the SUCCESS entries of lg, oldest first
RECURSIVE SentTemplates(_)
SentTemplates(lg) ==
    IF lg = <<>> THEN <<>>
    ELSE SentTemplates(Tail(lg))
           \o (IF Head(lg).status = "SUCCESS"
                 THEN << <<Head(lg).data[1].message, Head(lg).data[1].file>> >>
                 ELSE <<>>)

\* the scenario's run: three recipients, both delays 0, no monitor, started
\* once and left alone until it has finished
ScenarioDone ==
    /\ config = ZeroDelayConfig
    /\ nOps = 1
    /\ campaignStatus = "finished"

ScenarioTemplates ==
    LET t1 == <<ZeroDelayConfig.message1, FileName(ZeroDelayConfig.file1)>>
        t2 == <<ZeroDelayConfig.message2, FileName(ZeroDelayConfig.file2)>>
    IN  SentTemplates(log) = <<t1, t2, t1>>

\* C9 as stated: the scenario's run creates exactly 4 entries tagged INFO
\* or SUCCESS, and its three SUCCESS entries use template 1, 2, 1.
C9_FourEntries ==
    ScenarioDone =>
        /\ Cardinality(Tagged(log, "INFO") \cup Tagged(log, "SUCCESS")) = 4
        /\ ScenarioTemplates

\* C9 amended: the scenario's run creates exactly 5 entries, all tagged
\* INFO or SUCCESS: the start, three sends, the finish, oldest first; the
\* three SUCCESS entries use template 1, 2, 1.
C9_FiveEntries ==
    ScenarioDone =>
        /\ Len(log) = 5
        /\ Tagged(log, "INFO") = {1, 5}
        /\ Tagged(log, "SUCCESS") = {2, 3, 4}
        /\ log[5].message = StartedMsg
        /\ log[1].message = FinishedMsg
        /\ ScenarioTemplates

C9_Witness == ScenarioDone /\ Len(log) > 0

\* C10: start() with a valid configuration, from any state, leaves a log
\* of exactly the INFO 'Campaign started' entry, position 0, status
\* running, and the next-delay of recipient 0 as the only armed timer.
C10_StartIsClean ==
    [][(executeStartCampaign /\ validateConfig(config)) =>
          /\ Len(log') = 1
          /\ log'[1].message = StartedMsg
          /\ log'[1].status = "INFO"
          /\ currentNumberIndex' = 0
          /\ campaignStatus' = "running"
          /\ appState' = "WaitingForNext"
          /\ timers' = {Armed(timerRef', "next", config, 0, 0)}]_vars

\* the controller's status, phase, position, refs, timers and log
Controller ==
    <<campaignStatus, appState, currentNumberIndex, timerRef, actionTimerRef,
      timers, log>>

\* C11: pause() called when status is stopped, paused or finished is a
\* no-op: status, phase, position and timers are unchanged and no log entry
\* is appended.
C11_PauseOnlyWhileRunning ==
    [][(handlePauseCampaign /\ campaignStatus # "running")
         => UNCHANGED Controller]_vars

\* C12: resume() called while the campaign is stopped or finished (phase
\* Idle or Finished) is a no-op: status, phase, position and timers are
\* unchanged and no log entry is appended.
C12_ResumeOnlyWhilePaused ==
    [][(/\ handleResumeCampaign
        /\ campaignStatus \in {"stopped", "finished"}
        /\ appState \in {"Idle", "Finished"})
         => UNCHANGED Controller]_vars

\* C13: with a valid configuration, after any sequence of start, stop,
\* pause, resume and skip and timer firings, 0 <= position <= N, and
\* position = N implies phase Finished.
C13_PositionInRange ==
    validateConfig(config) =>
        /\ 0 <= currentNumberIndex
        /\ currentNumberIndex <= Len(config.numbers)
        /\ currentNumberIndex = Len(config.numbers) => appState = "Finished"

\* C14: in every reachable state at most one delayed callback is
\* outstanding: the next-delay timer and the send-delay timer are never
\* both armed and no slot has two pending callbacks.
C14_OneTimerArmed == Cardinality(timers) <= 1

\* the SUCCESS payload of recipient index i under configuration cfg
Payload(cfg, i) ==
    [ number         |-> At(cfg.numbers, i),
      status         |-> "SENT",
      message        |-> IF i % 2 = 0 THEN cfg.message1 ELSE cfg.message2,
      file           |-> FileName(IF i % 2 = 0 THEN cfg.file1 ELSE cfg.file2),
      deliveryStatus |-> "Pending" ]

\* C15: the run uses the configuration start() was called with, TwoConfig
\* here, whatever the form is edited to while the run is running or paused:
\* every SUCCESS entry is a send of that configuration, the run is finished
\* at position len(recipients) of that configuration, and every armed delay
\* is a delay of that configuration.
C15_RunUsesStartConfig ==
    /\ \A i \in Tagged(log, "SUCCESS") :
          \E n \in 0..(Len(TwoConfig.numbers) - 1) :
              log[i].data[1] = Payload(TwoConfig, n)
    /\ campaignStatus = "finished"
          => currentNumberIndex = Len(TwoConfig.numbers)
    /\ \A t \in timers :
          t.delay = (IF t.slot = "send" THEN TwoConfig.sendActionDelay * 1000
                     ELSE IF t.index = 0 THEN 0
                     ELSE TwoConfig.delayBetween * 1000)

\* the positions of the log that hold the 'Campaign finished' entry
FinishedAt(lg) == {i \in DOMAIN lg : lg[i].message = FinishedMsg}

\* C16: with a valid configuration, the step that finishes the run sets
\* phase Finished, leaves no timer armed and appends the INFO 'Campaign
\* finished' entry; the log of a run holds at most one such entry and no
\* SUCCESS or SKIPPED entry above (newer than) it.
C16_FinishIsTerminal ==
    /\ [][(/\ validateConfig(config)
            /\ campaignStatus # "finished"
            /\ campaignStatus' = "finished") =>
            /\ appState' = "Finished"
            /\ timers' = {}
            /\ Len(log') > Len(log)
            /\ log'[1].message = FinishedMsg
            /\ log'[1].status = "INFO"]_vars
    /\ [](validateConfig(config) =>
            /\ Cardinality(FinishedAt(log)) <= 1
            /\ \A f \in FinishedAt(log) :
                  \A i \in Tagged(log, "SUCCESS") \cup Tagged(log, "SKIPPED") :
                      i > f)

\* the text x is part of the message of entry e
Names(e, x) == \E i \in DOMAIN e.message : e.message[i] = x

\* an entry about the monitor
AboutMonitor(e) == Names(e, "Sending monitor message to ")

\* an INFO entry without payload, so without delivery status, that names
\* the monitor recipient of cfg
MonitorNotice(e, cfg) ==
    /\ e.status = "INFO"
    /\ e.data = <<>>
    /\ AboutMonitor(e)
    /\ Names(e, cfg.monitorNumber)

\* a monitor notice that also names one of the monitor-message variants
MonitorEntry(e, cfg) ==
    /\ MonitorNotice(e, cfg)
    /\ \E v \in DOMAIN cfg.monitorMessages : Names(e, cfg.monitorMessages[v])

\* When the send of timer t fires, with p the position its SUCCESS entry
\* takes in the log, the entry at p - 1 is the monitor's (IsMonitors) if a
\* monitor recipient and a monitor message are configured, otherwise the
\* send appends no entry about the monitor; a skip appends none either.
MonitorFollowsSend(IsMonitors(_, _)) ==
    LET p == Len(log') - Len(log)
    IN  /\ \A t \in timers :
             SendDelayFires(t) =>
                 /\ p >= 1
                 /\ log'[p].status = "SUCCESS"
                 /\ IF /\ t.cfg.monitorNumber # ""
                       /\ Len(t.cfg.monitorMessages) > 0
                      THEN /\ p >= 2
                           /\ IsMonitors(log'[p - 1], t.cfg)
                      ELSE \A j \in 1..p : ~AboutMonitor(log'[j])
        /\ handleSkipNumber => \A j \in 1..p : ~AboutMonitor(log'[j])

C18_TimersOnlyWhileRunning == campaignStatus # "running" => timers = {}

\* the timer of slot that ref points at is pending
ArmedIn(slot, ref) == \E t \in timers : t.slot = slot /\ t.id = ref

\* C19: status is finished if and only if phase is Finished, status
\* stopped implies phase Idle, and status running implies phase
\* WaitingForNext or WaitingForSend with the corresponding timer armed.
C19_StatusMatchesPhase ==
    /\ campaignStatus = "finished" <=> appState = "Finished"
    /\ campaignStatus = "stopped" => appState = "Idle"
    /\ campaignStatus = "running" =>
          \/ appState = "WaitingForNext" /\ ArmedIn("next", timerRef)
          \/ appState = "WaitingForSend" /\ ArmedIn("send", actionTimerRef)

\* the positions of the log that hold an outcome: a send or a skip
Outcomes(lg) == Tagged(lg, "SUCCESS") \cup Tagged(lg, "SKIPPED")

\* the recipient index an outcome entry is about; -1 if it names none
OutcomeIndex(e) ==
    IF \E i \in DOMAIN Recipients : Recipients[i] = NumberOf(e)
    THEN IndexOf(NumberOf(e))
    ELSE -1

\* C20: within one run of a valid configuration, whatever the pauses,
\* resumes and skips, the outcome entries (SUCCESS or SKIPPED) are about
\* strictly increasing recipient indexes, oldest first, so that no index
\* has two; position equals the number of outcome entries; and when the run
\* is finished every index 0..N-1 has its outcome entry.
C20_OneOutcomePerRecipient ==
    (validateConfig(config) /\ Started) =>
        /\ \A i, j \in Outcomes(log) :
              i < j => OutcomeIndex(log[i]) > OutcomeIndex(log[j])
        /\ \A i \in Outcomes(log) :
              OutcomeIndex(log[i]) \in 0..(Len(config.numbers) - 1)
        /\ currentNumberIndex = Cardinality(Outcomes(log))
        /\ campaignStatus = "finished" =>
              {OutcomeIndex(log[i]) : i \in Outcomes(log)}
                 = 0..(Len(config.numbers) - 1)

====
